---- MODULE Spec2Model ----
(***************************************************************************)
(* The claim-verification pipeline of src/model.py as a state machine: one *)
(* invocation of freaksearch_handler, from its arguments to its return     *)
(* value.  The OCR engine, the search provider, the web and the language   *)
(* model are the environment: every call to one of them draws its outcome  *)
(* (an exception or a value) from a small set.                             *)
(*                                                                         *)
(* Python strings that the code inspects (user text, OCR text, the model's *)
(* classification reply, page bodies) are sequences of Unicode code        *)
(* points, so strip(), lower(), replace() and `in` are computed.  Strings  *)
(* the code only passes along (fixed responses, titles, URLs, the verdict  *)
(* text) are TLA+ strings.                                                 *)
(***************************************************************************)
EXTENDS Integers, Sequences, FiniteSets, TLC

VARIABLES
    GOOGLE_API_KEY,     \* TRUE iff the environment variable is set (model.py:11)
    SEARCH_ENGINE_ID,   \* model.py:12
    GEMINI_API_KEY,     \* model.py:13
    user_input,         \* argument of freaksearch_handler
    image_bytes,        \* argument of freaksearch_handler
    pc,                 \* position of the invocation in the code
    text,               \* local of freaksearch_handler
    intent,             \* local of freaksearch_handler
    search_results,     \* local of verify_misinformation
    i,                  \* enumerate() index of the loop at model.py:88 (0-based)
    context,            \* local of verify_misinformation
    sources,            \* local of verify_misinformation
    result,             \* the value freaksearch_handler returned
    raised,             \* TRUE iff an exception left freaksearch_handler
    ocr_calls,          \* outcomes of the OCR engine invocations, in order
    search_calls,       \* queries sent to the search provider, in order
    scrape_calls,       \* URLs requested with requests.get and whether the fetch raised, in order
    intent_calls,       \* classification calls of the language model, with their outcome
    analysis_calls      \* synthesis calls of the language model: the prompts sent

vars == <<GOOGLE_API_KEY, SEARCH_ENGINE_ID, GEMINI_API_KEY, user_input, image_bytes,
          pc, text, intent, search_results, i, context, sources, result, raised,
          ocr_calls, search_calls, scrape_calls, intent_calls, analysis_calls>>

-----------------------------------------------------------------------------
(* Bounds of the model.                                                    *)

\* Longest item list the search provider answers with (one more than num=3).
MaxResults == 4

-----------------------------------------------------------------------------
(* Python values and string operations.                                    *)

\* Python's None where a string is expected (no code point is negative).
PyNone == <<-1>>

\* None as an atom (image_bytes, dict.get of a missing key, a pending value).
NoneAtom == "<None>"

\* bool(x) of a str-or-None value: None and "" are falsy.
Truthy(s) == s # PyNone /\ s # <<>>

\* bool(x) of an atom: None and the empty bytes/str are falsy.
TruthyAtom(a) == a # NoneAtom /\ a # ""

Min(a, b) == IF a <= b THEN a ELSE b

\* s[:n]
Take(s, n) == SubSeq(s, 1, Min(n, Len(s)))

\* The characters str.strip() removes: those with str.isspace().
Whitespace == {9, 10, 11, 12, 13, 28, 29, 30, 31, 32, 133, 160, 5760,
               8192, 8193, 8194, 8195, 8196, 8197, 8198, 8199, 8200, 8201, 8202,
               8232, 8233, 8239, 8287, 12288}

RECURSIVE LStrip(_)
LStrip(s) == IF s # <<>> /\ Head(s) \in Whitespace THEN LStrip(Tail(s)) ELSE s

RECURSIVE RStrip(_)
RStrip(s) ==
    IF s # <<>> /\ s[Len(s)] \in Whitespace THEN RStrip(SubSeq(s, 1, Len(s) - 1)) ELSE s

\* str.strip()
Strip(s) == RStrip(LStrip(s))

\* The lowercase mapping of the characters above ASCII whose lowercase is one
\* other character: <<first, last, step, offset>> maps every step-th code
\* point of first..last to itself plus offset.
LowerRanges == {
    <<192, 214, 1, 32>>, <<216, 222, 1, 32>>, <<256, 302, 2, 1>>, <<306, 310, 2, 1>>,
    <<313, 327, 2, 1>>, <<330, 374, 2, 1>>, <<376, 376, 1, -121>>,
    <<377, 381, 2, 1>>, <<385, 385, 1, 210>>, <<386, 388, 2, 1>>,
    <<390, 390, 1, 206>>, <<391, 391, 1, 1>>, <<393, 394, 1, 205>>,
    <<395, 395, 1, 1>>, <<398, 398, 1, 79>>, <<399, 399, 1, 202>>,
    <<400, 400, 1, 203>>, <<401, 401, 1, 1>>, <<403, 403, 1, 205>>,
    <<404, 404, 1, 207>>, <<406, 406, 1, 211>>, <<407, 407, 1, 209>>,
    <<408, 408, 1, 1>>, <<412, 412, 1, 211>>, <<413, 413, 1, 213>>,
    <<415, 415, 1, 214>>, <<416, 420, 2, 1>>, <<422, 422, 1, 218>>,
    <<423, 423, 1, 1>>, <<425, 425, 1, 218>>, <<428, 428, 1, 1>>,
    <<430, 430, 1, 218>>, <<431, 431, 1, 1>>, <<433, 434, 1, 217>>,
    <<435, 437, 2, 1>>, <<439, 439, 1, 219>>, <<440, 440, 1, 1>>, <<444, 444, 1, 1>>,
    <<452, 452, 1, 2>>, <<453, 453, 1, 1>>, <<455, 455, 1, 2>>, <<456, 456, 1, 1>>,
    <<458, 458, 1, 2>>, <<459, 475, 2, 1>>, <<478, 494, 2, 1>>, <<497, 497, 1, 2>>,
    <<498, 500, 2, 1>>, <<502, 502, 1, -97>>, <<503, 503, 1, -56>>,
    <<504, 542, 2, 1>>, <<544, 544, 1, -130>>, <<546, 562, 2, 1>>,
    <<570, 570, 1, 10795>>, <<571, 571, 1, 1>>, <<573, 573, 1, -163>>,
    <<574, 574, 1, 10792>>, <<577, 577, 1, 1>>, <<579, 579, 1, -195>>,
    <<580, 580, 1, 69>>, <<581, 581, 1, 71>>, <<582, 590, 2, 1>>, <<880, 882, 2, 1>>,
    <<886, 886, 1, 1>>, <<895, 895, 1, 116>>, <<902, 902, 1, 38>>,
    <<904, 906, 1, 37>>, <<908, 908, 1, 64>>, <<910, 911, 1, 63>>,
    <<913, 929, 1, 32>>, <<931, 939, 1, 32>>, <<975, 975, 1, 8>>,
    <<984, 1006, 2, 1>>, <<1012, 1012, 1, -60>>, <<1015, 1015, 1, 1>>,
    <<1017, 1017, 1, -7>>, <<1018, 1018, 1, 1>>, <<1021, 1023, 1, -130>>,
    <<1024, 1039, 1, 80>>, <<1040, 1071, 1, 32>>, <<1120, 1152, 2, 1>>,
    <<1162, 1214, 2, 1>>, <<1216, 1216, 1, 15>>, <<1217, 1229, 2, 1>>,
    <<1232, 1326, 2, 1>>, <<1329, 1366, 1, 48>>, <<4256, 4293, 1, 7264>>,
    <<4295, 4295, 1, 7264>>, <<4301, 4301, 1, 7264>>, <<5024, 5103, 1, 38864>>,
    <<5104, 5109, 1, 8>>, <<7312, 7354, 1, -3008>>, <<7357, 7359, 1, -3008>>,
    <<7680, 7828, 2, 1>>, <<7838, 7838, 1, -7615>>, <<7840, 7934, 2, 1>>,
    <<7944, 7951, 1, -8>>, <<7960, 7965, 1, -8>>, <<7976, 7983, 1, -8>>,
    <<7992, 7999, 1, -8>>, <<8008, 8013, 1, -8>>, <<8025, 8031, 2, -8>>,
    <<8040, 8047, 1, -8>>, <<8072, 8079, 1, -8>>, <<8088, 8095, 1, -8>>,
    <<8104, 8111, 1, -8>>, <<8120, 8121, 1, -8>>, <<8122, 8123, 1, -74>>,
    <<8124, 8124, 1, -9>>, <<8136, 8139, 1, -86>>, <<8140, 8140, 1, -9>>,
    <<8152, 8153, 1, -8>>, <<8154, 8155, 1, -100>>, <<8168, 8169, 1, -8>>,
    <<8170, 8171, 1, -112>>, <<8172, 8172, 1, -7>>, <<8184, 8185, 1, -128>>,
    <<8186, 8187, 1, -126>>, <<8188, 8188, 1, -9>>, <<8486, 8486, 1, -7517>>,
    <<8490, 8490, 1, -8383>>, <<8491, 8491, 1, -8262>>, <<8498, 8498, 1, 28>>,
    <<8544, 8559, 1, 16>>, <<8579, 8579, 1, 1>>, <<9398, 9423, 1, 26>>,
    <<11264, 11311, 1, 48>>, <<11360, 11360, 1, 1>>, <<11362, 11362, 1, -10743>>,
    <<11363, 11363, 1, -3814>>, <<11364, 11364, 1, -10727>>, <<11367, 11371, 2, 1>>,
    <<11373, 11373, 1, -10780>>, <<11374, 11374, 1, -10749>>,
    <<11375, 11375, 1, -10783>>, <<11376, 11376, 1, -10782>>, <<11378, 11378, 1, 1>>,
    <<11381, 11381, 1, 1>>, <<11390, 11391, 1, -10815>>, <<11392, 11490, 2, 1>>,
    <<11499, 11501, 2, 1>>, <<11506, 11506, 1, 1>>, <<42560, 42604, 2, 1>>,
    <<42624, 42650, 2, 1>>, <<42786, 42798, 2, 1>>, <<42802, 42862, 2, 1>>,
    <<42873, 42875, 2, 1>>, <<42877, 42877, 1, -35332>>, <<42878, 42886, 2, 1>>,
    <<42891, 42891, 1, 1>>, <<42893, 42893, 1, -42280>>, <<42896, 42898, 2, 1>>,
    <<42902, 42920, 2, 1>>, <<42922, 42922, 1, -42308>>, <<42923, 42923, 1, -42319>>,
    <<42924, 42924, 1, -42315>>, <<42925, 42925, 1, -42305>>,
    <<42926, 42926, 1, -42308>>, <<42928, 42928, 1, -42258>>,
    <<42929, 42929, 1, -42282>>, <<42930, 42930, 1, -42261>>,
    <<42931, 42931, 1, 928>>, <<42932, 42946, 2, 1>>, <<42948, 42948, 1, -48>>,
    <<42949, 42949, 1, -42307>>, <<42950, 42950, 1, -35384>>, <<42951, 42953, 2, 1>>,
    <<42960, 42960, 1, 1>>, <<42966, 42968, 2, 1>>, <<42997, 42997, 1, 1>>,
    <<65313, 65338, 1, 32>>, <<66560, 66599, 1, 40>>, <<66736, 66771, 1, 40>>,
    <<66928, 66938, 1, 39>>, <<66940, 66954, 1, 39>>, <<66956, 66962, 1, 39>>,
    <<66964, 66965, 1, 39>>, <<68736, 68786, 1, 64>>, <<71840, 71871, 1, 32>>,
    <<93760, 93791, 1, 32>>, <<125184, 125217, 1, 34>> }

\* Cased characters that are not case-ignorable, as <<first, last>> ranges.
CasedRanges == {
    <<65, 90>>, <<97, 122>>, <<170, 170>>, <<181, 181>>, <<186, 186>>, <<192, 214>>,
    <<216, 246>>, <<248, 442>>, <<444, 447>>, <<452, 659>>, <<661, 687>>,
    <<880, 883>>, <<886, 887>>, <<891, 893>>, <<895, 895>>, <<902, 902>>,
    <<904, 906>>, <<908, 908>>, <<910, 929>>, <<931, 1013>>, <<1015, 1153>>,
    <<1162, 1327>>, <<1329, 1366>>, <<1376, 1416>>, <<4256, 4293>>, <<4295, 4295>>,
    <<4301, 4301>>, <<4304, 4346>>, <<4349, 4351>>, <<5024, 5109>>, <<5112, 5117>>,
    <<7296, 7304>>, <<7312, 7354>>, <<7357, 7359>>, <<7424, 7467>>, <<7531, 7543>>,
    <<7545, 7578>>, <<7680, 7957>>, <<7960, 7965>>, <<7968, 8005>>, <<8008, 8013>>,
    <<8016, 8023>>, <<8025, 8025>>, <<8027, 8027>>, <<8029, 8029>>, <<8031, 8061>>,
    <<8064, 8116>>, <<8118, 8124>>, <<8126, 8126>>, <<8130, 8132>>, <<8134, 8140>>,
    <<8144, 8147>>, <<8150, 8155>>, <<8160, 8172>>, <<8178, 8180>>, <<8182, 8188>>,
    <<8450, 8450>>, <<8455, 8455>>, <<8458, 8467>>, <<8469, 8469>>, <<8473, 8477>>,
    <<8484, 8484>>, <<8486, 8486>>, <<8488, 8488>>, <<8490, 8493>>, <<8495, 8500>>,
    <<8505, 8505>>, <<8508, 8511>>, <<8517, 8521>>, <<8526, 8526>>, <<8544, 8575>>,
    <<8579, 8580>>, <<9398, 9449>>, <<11264, 11387>>, <<11390, 11492>>,
    <<11499, 11502>>, <<11506, 11507>>, <<11520, 11557>>, <<11559, 11559>>,
    <<11565, 11565>>, <<42560, 42605>>, <<42624, 42651>>, <<42786, 42863>>,
    <<42865, 42887>>, <<42891, 42894>>, <<42896, 42954>>, <<42960, 42961>>,
    <<42963, 42963>>, <<42965, 42969>>, <<42997, 42998>>, <<43002, 43002>>,
    <<43824, 43866>>, <<43872, 43880>>, <<43888, 43967>>, <<64256, 64262>>,
    <<64275, 64279>>, <<65313, 65338>>, <<65345, 65370>>, <<66560, 66639>>,
    <<66736, 66771>>, <<66776, 66811>>, <<66928, 66938>>, <<66940, 66954>>,
    <<66956, 66962>>, <<66964, 66965>>, <<66967, 66977>>, <<66979, 66993>>,
    <<66995, 67001>>, <<67003, 67004>>, <<68736, 68786>>, <<68800, 68850>>,
    <<71840, 71903>>, <<93760, 93823>>, <<119808, 119892>>, <<119894, 119964>>,
    <<119966, 119967>>, <<119970, 119970>>, <<119973, 119974>>, <<119977, 119980>>,
    <<119982, 119993>>, <<119995, 119995>>, <<119997, 120003>>, <<120005, 120069>>,
    <<120071, 120074>>, <<120077, 120084>>, <<120086, 120092>>, <<120094, 120121>>,
    <<120123, 120126>>, <<120128, 120132>>, <<120134, 120134>>, <<120138, 120144>>,
    <<120146, 120485>>, <<120488, 120512>>, <<120514, 120538>>, <<120540, 120570>>,
    <<120572, 120596>>, <<120598, 120628>>, <<120630, 120654>>, <<120656, 120686>>,
    <<120688, 120712>>, <<120714, 120744>>, <<120746, 120770>>, <<120772, 120779>>,
    <<122624, 122633>>, <<122635, 122654>>, <<125184, 125251>>, <<127280, 127305>>,
    <<127312, 127337>>, <<127344, 127369>> }

\* Case-ignorable characters, as <<first, last>> ranges.
CaseIgnorableRanges == {
    <<39, 39>>, <<46, 46>>, <<58, 58>>, <<94, 94>>, <<96, 96>>, <<168, 168>>,
    <<173, 173>>, <<175, 175>>, <<180, 180>>, <<183, 184>>, <<688, 879>>,
    <<884, 885>>, <<890, 890>>, <<900, 901>>, <<903, 903>>, <<1155, 1161>>,
    <<1369, 1369>>, <<1375, 1375>>, <<1425, 1469>>, <<1471, 1471>>, <<1473, 1474>>,
    <<1476, 1477>>, <<1479, 1479>>, <<1524, 1524>>, <<1536, 1541>>, <<1552, 1562>>,
    <<1564, 1564>>, <<1600, 1600>>, <<1611, 1631>>, <<1648, 1648>>, <<1750, 1757>>,
    <<1759, 1768>>, <<1770, 1773>>, <<1807, 1807>>, <<1809, 1809>>, <<1840, 1866>>,
    <<1958, 1968>>, <<2027, 2037>>, <<2042, 2042>>, <<2045, 2045>>, <<2070, 2093>>,
    <<2137, 2139>>, <<2184, 2184>>, <<2192, 2193>>, <<2200, 2207>>, <<2249, 2306>>,
    <<2362, 2362>>, <<2364, 2364>>, <<2369, 2376>>, <<2381, 2381>>, <<2385, 2391>>,
    <<2402, 2403>>, <<2417, 2417>>, <<2433, 2433>>, <<2492, 2492>>, <<2497, 2500>>,
    <<2509, 2509>>, <<2530, 2531>>, <<2558, 2558>>, <<2561, 2562>>, <<2620, 2620>>,
    <<2625, 2626>>, <<2631, 2632>>, <<2635, 2637>>, <<2641, 2641>>, <<2672, 2673>>,
    <<2677, 2677>>, <<2689, 2690>>, <<2748, 2748>>, <<2753, 2757>>, <<2759, 2760>>,
    <<2765, 2765>>, <<2786, 2787>>, <<2810, 2815>>, <<2817, 2817>>, <<2876, 2876>>,
    <<2879, 2879>>, <<2881, 2884>>, <<2893, 2893>>, <<2901, 2902>>, <<2914, 2915>>,
    <<2946, 2946>>, <<3008, 3008>>, <<3021, 3021>>, <<3072, 3072>>, <<3076, 3076>>,
    <<3132, 3132>>, <<3134, 3136>>, <<3142, 3144>>, <<3146, 3149>>, <<3157, 3158>>,
    <<3170, 3171>>, <<3201, 3201>>, <<3260, 3260>>, <<3263, 3263>>, <<3270, 3270>>,
    <<3276, 3277>>, <<3298, 3299>>, <<3328, 3329>>, <<3387, 3388>>, <<3393, 3396>>,
    <<3405, 3405>>, <<3426, 3427>>, <<3457, 3457>>, <<3530, 3530>>, <<3538, 3540>>,
    <<3542, 3542>>, <<3633, 3633>>, <<3636, 3642>>, <<3654, 3662>>, <<3761, 3761>>,
    <<3764, 3772>>, <<3782, 3782>>, <<3784, 3789>>, <<3864, 3865>>, <<3893, 3893>>,
    <<3895, 3895>>, <<3897, 3897>>, <<3953, 3966>>, <<3968, 3972>>, <<3974, 3975>>,
    <<3981, 3991>>, <<3993, 4028>>, <<4038, 4038>>, <<4141, 4144>>, <<4146, 4151>>,
    <<4153, 4154>>, <<4157, 4158>>, <<4184, 4185>>, <<4190, 4192>>, <<4209, 4212>>,
    <<4226, 4226>>, <<4229, 4230>>, <<4237, 4237>>, <<4253, 4253>>, <<4348, 4348>>,
    <<4957, 4959>>, <<5906, 5908>>, <<5938, 5939>>, <<5970, 5971>>, <<6002, 6003>>,
    <<6068, 6069>>, <<6071, 6077>>, <<6086, 6086>>, <<6089, 6099>>, <<6103, 6103>>,
    <<6109, 6109>>, <<6155, 6159>>, <<6211, 6211>>, <<6277, 6278>>, <<6313, 6313>>,
    <<6432, 6434>>, <<6439, 6440>>, <<6450, 6450>>, <<6457, 6459>>, <<6679, 6680>>,
    <<6683, 6683>>, <<6742, 6742>>, <<6744, 6750>>, <<6752, 6752>>, <<6754, 6754>>,
    <<6757, 6764>>, <<6771, 6780>>, <<6783, 6783>>, <<6823, 6823>>, <<6832, 6862>>,
    <<6912, 6915>>, <<6964, 6964>>, <<6966, 6970>>, <<6972, 6972>>, <<6978, 6978>>,
    <<7019, 7027>>, <<7040, 7041>>, <<7074, 7077>>, <<7080, 7081>>, <<7083, 7085>>,
    <<7142, 7142>>, <<7144, 7145>>, <<7149, 7149>>, <<7151, 7153>>, <<7212, 7219>>,
    <<7222, 7223>>, <<7288, 7293>>, <<7376, 7378>>, <<7380, 7392>>, <<7394, 7400>>,
    <<7405, 7405>>, <<7412, 7412>>, <<7416, 7417>>, <<7468, 7530>>, <<7544, 7544>>,
    <<7579, 7679>>, <<8125, 8125>>, <<8127, 8129>>, <<8141, 8143>>, <<8157, 8159>>,
    <<8173, 8175>>, <<8189, 8190>>, <<8203, 8207>>, <<8216, 8217>>, <<8228, 8228>>,
    <<8231, 8231>>, <<8234, 8238>>, <<8288, 8292>>, <<8294, 8303>>, <<8305, 8305>>,
    <<8319, 8319>>, <<8336, 8348>>, <<8400, 8432>>, <<11388, 11389>>,
    <<11503, 11505>>, <<11631, 11631>>, <<11647, 11647>>, <<11744, 11775>>,
    <<11823, 11823>>, <<12293, 12293>>, <<12330, 12333>>, <<12337, 12341>>,
    <<12347, 12347>>, <<12441, 12446>>, <<12540, 12542>>, <<40981, 40981>>,
    <<42232, 42237>>, <<42508, 42508>>, <<42607, 42610>>, <<42612, 42621>>,
    <<42623, 42623>>, <<42652, 42655>>, <<42736, 42737>>, <<42752, 42785>>,
    <<42864, 42864>>, <<42888, 42890>>, <<42994, 42996>>, <<43000, 43001>>,
    <<43010, 43010>>, <<43014, 43014>>, <<43019, 43019>>, <<43045, 43046>>,
    <<43052, 43052>>, <<43204, 43205>>, <<43232, 43249>>, <<43263, 43263>>,
    <<43302, 43309>>, <<43335, 43345>>, <<43392, 43394>>, <<43443, 43443>>,
    <<43446, 43449>>, <<43452, 43453>>, <<43471, 43471>>, <<43493, 43494>>,
    <<43561, 43566>>, <<43569, 43570>>, <<43573, 43574>>, <<43587, 43587>>,
    <<43596, 43596>>, <<43632, 43632>>, <<43644, 43644>>, <<43696, 43696>>,
    <<43698, 43700>>, <<43703, 43704>>, <<43710, 43711>>, <<43713, 43713>>,
    <<43741, 43741>>, <<43756, 43757>>, <<43763, 43764>>, <<43766, 43766>>,
    <<43867, 43871>>, <<43881, 43883>>, <<44005, 44005>>, <<44008, 44008>>,
    <<44013, 44013>>, <<64286, 64286>>, <<64434, 64450>>, <<65024, 65039>>,
    <<65043, 65043>>, <<65056, 65071>>, <<65106, 65106>>, <<65109, 65109>>,
    <<65279, 65279>>, <<65287, 65287>>, <<65294, 65294>>, <<65306, 65306>>,
    <<65342, 65342>>, <<65344, 65344>>, <<65392, 65392>>, <<65438, 65439>>,
    <<65507, 65507>>, <<65529, 65531>>, <<66045, 66045>>, <<66272, 66272>>,
    <<66422, 66426>>, <<67456, 67461>>, <<67463, 67504>>, <<67506, 67514>>,
    <<68097, 68099>>, <<68101, 68102>>, <<68108, 68111>>, <<68152, 68154>>,
    <<68159, 68159>>, <<68325, 68326>>, <<68900, 68903>>, <<69291, 69292>>,
    <<69446, 69456>>, <<69506, 69509>>, <<69633, 69633>>, <<69688, 69702>>,
    <<69744, 69744>>, <<69747, 69748>>, <<69759, 69761>>, <<69811, 69814>>,
    <<69817, 69818>>, <<69821, 69821>>, <<69826, 69826>>, <<69837, 69837>>,
    <<69888, 69890>>, <<69927, 69931>>, <<69933, 69940>>, <<70003, 70003>>,
    <<70016, 70017>>, <<70070, 70078>>, <<70089, 70092>>, <<70095, 70095>>,
    <<70191, 70193>>, <<70196, 70196>>, <<70198, 70199>>, <<70206, 70206>>,
    <<70367, 70367>>, <<70371, 70378>>, <<70400, 70401>>, <<70459, 70460>>,
    <<70464, 70464>>, <<70502, 70508>>, <<70512, 70516>>, <<70712, 70719>>,
    <<70722, 70724>>, <<70726, 70726>>, <<70750, 70750>>, <<70835, 70840>>,
    <<70842, 70842>>, <<70847, 70848>>, <<70850, 70851>>, <<71090, 71093>>,
    <<71100, 71101>>, <<71103, 71104>>, <<71132, 71133>>, <<71219, 71226>>,
    <<71229, 71229>>, <<71231, 71232>>, <<71339, 71339>>, <<71341, 71341>>,
    <<71344, 71349>>, <<71351, 71351>>, <<71453, 71455>>, <<71458, 71461>>,
    <<71463, 71467>>, <<71727, 71735>>, <<71737, 71738>>, <<71995, 71996>>,
    <<71998, 71998>>, <<72003, 72003>>, <<72148, 72151>>, <<72154, 72155>>,
    <<72160, 72160>>, <<72193, 72202>>, <<72243, 72248>>, <<72251, 72254>>,
    <<72263, 72263>>, <<72273, 72278>>, <<72281, 72283>>, <<72330, 72342>>,
    <<72344, 72345>>, <<72752, 72758>>, <<72760, 72765>>, <<72767, 72767>>,
    <<72850, 72871>>, <<72874, 72880>>, <<72882, 72883>>, <<72885, 72886>>,
    <<73009, 73014>>, <<73018, 73018>>, <<73020, 73021>>, <<73023, 73029>>,
    <<73031, 73031>>, <<73104, 73105>>, <<73109, 73109>>, <<73111, 73111>>,
    <<73459, 73460>>, <<78896, 78904>>, <<92912, 92916>>, <<92976, 92982>>,
    <<92992, 92995>>, <<94031, 94031>>, <<94095, 94111>>, <<94176, 94177>>,
    <<94179, 94180>>, <<110576, 110579>>, <<110581, 110587>>, <<110589, 110590>>,
    <<113821, 113822>>, <<113824, 113827>>, <<118528, 118573>>, <<118576, 118598>>,
    <<119143, 119145>>, <<119155, 119170>>, <<119173, 119179>>, <<119210, 119213>>,
    <<119362, 119364>>, <<121344, 121398>>, <<121403, 121452>>, <<121461, 121461>>,
    <<121476, 121476>>, <<121499, 121503>>, <<121505, 121519>>, <<122880, 122886>>,
    <<122888, 122904>>, <<122907, 122913>>, <<122915, 122916>>, <<122918, 122922>>,
    <<123184, 123197>>, <<123566, 123566>>, <<123628, 123631>>, <<125136, 125142>>,
    <<125252, 125259>>, <<127995, 127999>>, <<917505, 917505>>, <<917536, 917631>>,
    <<917760, 917999>> }

InRanges(c, ranges) == \E r \in ranges : r[1] <= c /\ c <= r[2]

\* str.lower() of a one-character string.
LowerChar(c) ==
    IF c < 128 THEN <<IF 65 <= c /\ c <= 90 THEN c + 32 ELSE c>>
    ELSE IF c = 304 THEN <<105, 775>>
    ELSE IF \E r \in LowerRanges : r[1] <= c /\ c <= r[2] /\ (c - r[1]) % r[3] = 0
    THEN LET r == CHOOSE q \in LowerRanges :
                      q[1] <= c /\ c <= q[2] /\ (c - q[1]) % q[3] = 0
         IN <<c + r[4]>>
    ELSE <<c>>

\* A capital sigma at position k is word-final: the nearest character before
\* it that is not case-ignorable is cased, and the nearest one after it, if
\* any, is not.
FinalSigma(s, k) ==
    /\ \E j \in 1..(k - 1) :
        /\ InRanges(s[j], CasedRanges)
        /\ \A n \in (j + 1)..(k - 1) : InRanges(s[n], CaseIgnorableRanges)
    /\ ~\E j \in (k + 1)..Len(s) :
        /\ InRanges(s[j], CasedRanges)
        /\ \A n \in (k + 1)..(j - 1) : InRanges(s[n], CaseIgnorableRanges)

RECURSIVE LowerFrom(_, _)
LowerFrom(s, k) ==
    IF k > Len(s) THEN <<>>
    ELSE (IF s[k] = 931
          THEN (IF FinalSigma(s, k) THEN <<962>> ELSE <<963>>)
          ELSE LowerChar(s[k])) \o LowerFrom(s, k + 1)

\* str.lower()
Lower(s) == LowerFrom(s, 1)

\* str.replace(c, "")
RECURSIVE RemoveChar(_, _)
RemoveChar(s, c) ==
    IF s = <<>> THEN <<>>
    ELSE IF Head(s) = c THEN RemoveChar(Tail(s), c)
    ELSE <<Head(s)>> \o RemoveChar(Tail(s), c)

\* sub in s
Contains(s, sub) ==
    \E k \in 0..(Len(s) - Len(sub)) : SubSeq(s, k + 1, k + Len(sub)) = sub

\* sep.join(parts)
RECURSIVE Join(_, _)
Join(parts, sep) ==
    IF parts = <<>> THEN <<>>
    ELSE IF Len(parts) = 1 THEN parts[1]
    ELSE parts[1] \o sep \o Join(Tail(parts), sep)

\* d.get(k) of a dict, None when the key is missing.
DictGet(d, k) == IF k \in DOMAIN d THEN d[k] ELSE NoneAtom

\* All sequences over S of length at most n.
SeqsUpTo(S, n) == UNION {[1..k -> S] : k \in 0..n}

\* What a called function did: its return value, or an exception it let out.
Ret(v) == [exc |-> FALSE, val |-> v]
Raise == [exc |-> TRUE, val |-> NoneAtom]

-----------------------------------------------------------------------------
(* Literals of the code.                                                   *)

\* model.py:58: 'hello', 'hi', 'vanakkam', 'hai', 'good morning',
\* 'good evening'
greetings == {
    <<104, 101, 108, 108, 111>>,
    <<104, 105>>,
    <<118, 97, 110, 97, 107, 107, 97, 109>>,
    <<104, 97, 105>>,
    <<103, 111, 111, 100, 32, 109, 111, 114, 110, 105, 110, 103>>,
    <<103, 111, 111, 100, 32, 101, 118, 101, 110, 105, 110, 103>> }

\* model.py:76, 'fact_checking_claim'
FactLabel == <<102, 97, 99, 116, 95, 99, 104, 101, 99, 107, 105, 110, 103, 95,
               99, 108, 97, 105, 109>>

\* model.py:42, the slice [:2500]
ScrapeLimit == 2500

\* model.py:108, the slice sources[:3]
SourceCap == 3

\* model.py:29, num=3 asked of the provider
NumRequested == 3

MsgNoImageText == "Error: No text read from image."
MsgNoInput == "Error: No input provided."
MsgGreeting == "Hello! I am FreakSearch. Provide a claim to verify."
MsgOnlyClaims == "I am FreakSearch. I only verify news claims."
MsgNoSearch == "Error: Could not fetch search results. Check API keys or quota."
MsgNoGemini == "Google search fetched content, but Gemini API key missing for analysis."
MsgGeminiError == "Gemini analysis error: <e>"

-----------------------------------------------------------------------------
(* The inputs and the environment's answers.                               *)

\* user_input: None, "", the greeting "\rVANAKKAM\n" (capitals, a Kelvin
\* sign for the k, whitespace around it), the claim "moon".
UserInputs == {
    PyNone,
    <<>>,
    <<13, 86, 65, 78, 65, 8490, 75, 65, 77, 10>>,
    <<109, 111, 111, 110>> }

\* image_bytes: no image, an empty buffer, a non-empty buffer.
ImageInputs == {NoneAtom, "", "img"}

\* What Image.open + pytesseract.image_to_string do with a buffer: raise, or
\* recognise some raw text: "", " \n\f", "Hi\n\f", " moon\n\f".
OcrOutcomes == {
    [err |-> TRUE, raw |-> <<>>],
    [err |-> FALSE, raw |-> <<>>],
    [err |-> FALSE, raw |-> <<32, 10, 12>>],
    [err |-> FALSE, raw |-> <<72, 105, 10, 12>>],
    [err |-> FALSE, raw |-> <<32, 109, 111, 111, 110, 10, 12>>] }

\* What model.generate_content(...).text does for the classification prompt:
\* raise, or answer ' Fact_"Checking"_Claim\r\n', 'fact checking claim',
\* ' General_Question ', ''.
IntentReplies == {
    [err |-> TRUE, text |-> <<>>],
    [err |-> FALSE, text |-> <<32, 70, 97, 99, 116, 95, 34, 67, 104, 101, 99, 107, 105,
                               110, 103, 34, 95, 67, 108, 97, 105, 109, 13, 10>>],
    [err |-> FALSE, text |-> <<102, 97, 99, 116, 32, 99, 104, 101, 99, 107, 105, 110, 103,
                               32, 99, 108, 97, 105, 109>>],
    [err |-> FALSE, text |-> <<32, 71, 101, 110, 101, 114, 97, 108, 95, 81, 117, 101, 115,
                               116, 105, 111, 110, 32>>],
    [err |-> FALSE, text |-> <<>>] }

\* What model.generate_content(...).text does for the analysis prompt.
AnalysisReplies == {
    [err |-> TRUE, text |-> ""],
    [err |-> FALSE, text |-> "Verdict: Misleading"] }

\* An item of the provider's answer: a dict with a title and, usually, a link.
Items == {
    [title |-> "A", link |-> "u1"],
    [title |-> "B", link |-> "u2"],
    [title |-> "C"] }

\* What service.cse().list(...).execute() does: raise, answer without an
\* 'items' key (no hits), or answer with a list of items.
SearchOutcomes ==
    {[err |-> TRUE, res |-> [kind |-> "customsearch#search"]]}
    \cup {[err |-> FALSE, res |-> [kind |-> "customsearch#search"]]}
    \cup {[err |-> FALSE, res |-> [kind |-> "customsearch#search", items |-> l]] :
            l \in SeqsUpTo(Items, MaxResults)}

\* The <p> elements of the page behind each URL: "ab" and "c", or "d".
Paragraphs(url) ==
    IF url = "u1" THEN << <<97, 98>>, <<99>> >> ELSE << <<100>> >>

\* What requests.get + BeautifulSoup do for a URL: raise, or yield the page.
FetchOutcomes(url) ==
    {[err |-> TRUE, paragraphs |-> <<>>], [err |-> FALSE, paragraphs |-> Paragraphs(url)]}

-----------------------------------------------------------------------------
(* The helpers of model.py.  An operator that models a function takes the  *)
(* function's arguments and the outcome of the dependency it calls, and    *)
(* yields Ret(value) or Raise, plus `called`: whether the dependency was   *)
(* invoked.                                                                *)

\* model.py:24-33
search_the_web_google(query, outcome) ==
    IF ~GOOGLE_API_KEY \/ ~SEARCH_ENGINE_ID
    THEN [exc |-> FALSE, val |-> <<>>, called |-> FALSE]
    ELSE IF outcome.err
    THEN [exc |-> FALSE, val |-> <<>>, called |-> TRUE]
    ELSE [exc |-> FALSE,
          val |-> IF "items" \in DOMAIN outcome.res THEN outcome.res.items ELSE <<>>,
          called |-> TRUE]

\* scrape_url_content without its try/except.
scrape_url_content_unguarded(url, outcome) ==
    IF outcome.err
    THEN Raise
    ELSE Ret(Take(Join(outcome.paragraphs, <<32>>), ScrapeLimit))

\* model.py:36-45
scrape_url_content(url, outcome) ==
    IF outcome.err
    THEN Ret(<<>>)
    ELSE Ret(Take(Join(outcome.paragraphs, <<32>>), ScrapeLimit))

\* model.py:48-54
get_text_from_image(bytes, ocr) ==
    IF ocr.err THEN Ret(PyNone) ELSE Ret(Strip(ocr.raw))

\* recognize_intent comparing the lowercased text without strip().
recognize_intent_nostrip(input, reply) ==
    IF input = PyNone
    THEN [exc |-> TRUE, val |-> NoneAtom, called |-> FALSE]
    ELSE IF Lower(input) \in greetings
    THEN [exc |-> FALSE, val |-> "greeting", called |-> FALSE]
    ELSE IF ~GEMINI_API_KEY
    THEN [exc |-> FALSE, val |-> "fact_checking_claim", called |-> FALSE]
    ELSE IF reply.err
    THEN [exc |-> FALSE, val |-> "fact_checking_claim", called |-> TRUE]
    ELSE [exc |-> FALSE,
          val |-> IF Contains(RemoveChar(Lower(Strip(reply.text)), 34), FactLabel)
                  THEN "fact_checking_claim"
                  ELSE "general_question",
          called |-> TRUE]

\* recognize_intent without .replace('"', "") on the model's reply.
recognize_intent_keepquotes(input, reply) ==
    IF input = PyNone
    THEN [exc |-> TRUE, val |-> NoneAtom, called |-> FALSE]
    ELSE IF Lower(Strip(input)) \in greetings
    THEN [exc |-> FALSE, val |-> "greeting", called |-> FALSE]
    ELSE IF ~GEMINI_API_KEY
    THEN [exc |-> FALSE, val |-> "fact_checking_claim", called |-> FALSE]
    ELSE IF reply.err
    THEN [exc |-> FALSE, val |-> "fact_checking_claim", called |-> TRUE]
    ELSE [exc |-> FALSE,
          val |-> IF Contains(Lower(Strip(reply.text)), FactLabel)
                  THEN "fact_checking_claim"
                  ELSE "general_question",
          called |-> TRUE]

\* model.py:57-79; None.strip() at model.py:59 is outside the try.
recognize_intent(input, reply) ==
    IF input = PyNone
    THEN [exc |-> TRUE, val |-> NoneAtom, called |-> FALSE]
    ELSE IF Lower(Strip(input)) \in greetings
    THEN [exc |-> FALSE, val |-> "greeting", called |-> FALSE]
    ELSE IF ~GEMINI_API_KEY
    THEN [exc |-> FALSE, val |-> "fact_checking_claim", called |-> FALSE]
    ELSE IF reply.err
    THEN [exc |-> FALSE, val |-> "fact_checking_claim", called |-> TRUE]
    ELSE [exc |-> FALSE,
          val |-> IF Contains(RemoveChar(Lower(Strip(reply.text)), 34), FactLabel)
                  THEN "fact_checking_claim"
                  ELSE "general_question",
          called |-> TRUE]

\* model.py:124-125, `if not text`
check_text(t) ==
    IF ~Truthy(t) THEN [returns |-> TRUE, val |-> MsgNoInput]
    ELSE [returns |-> FALSE, val |-> NoneAtom]

\* The handler without the check of its own after OCR: only `if not text` of
\* model.py:124 is left.
check_image_text_generic(t) == check_text(t)

\* model.py:118-120, `if not text` after OCR
check_image_text(t) ==
    IF ~Truthy(t) THEN [returns |-> TRUE, val |-> MsgNoImageText]
    ELSE check_text(t)

\* The dispatch with `else` in place of `elif intent == "fact_checking_claim"`.
handler_dispatch_no_elif(category) ==
    IF category = "greeting" THEN [returns |-> TRUE, val |-> MsgGreeting]
    ELSE [returns |-> FALSE, val |-> NoneAtom]

\* model.py:128-133
handler_dispatch(category) ==
    IF category = "greeting" THEN [returns |-> TRUE, val |-> MsgGreeting]
    ELSE IF category = "fact_checking_claim" THEN [returns |-> FALSE, val |-> NoneAtom]
    ELSE [returns |-> TRUE, val |-> MsgOnlyClaims]

\* model.py:84-85, `if not search_results`
check_search_results(results) ==
    IF results = <<>> THEN [returns |-> TRUE, val |-> MsgNoSearch]
    ELSE [returns |-> FALSE, val |-> NoneAtom]

\* The loop body keeping a source only `if content`.
add_source_drop_failed(ctx, srcs, idx, item, url, content) ==
    IF content = <<>>
    THEN [context |-> ctx, sources |-> srcs]
    ELSE [context |-> Append(ctx, [index |-> idx + 1, title |-> DictGet(item, "title"),
                                   url |-> url, content |-> content]),
          sources |-> Append(srcs, url)]

\* The loop body putting the newest source first.
add_source_prepend(ctx, srcs, idx, item, url, content) ==
    [context |-> <<[index |-> idx + 1, title |-> DictGet(item, "title"),
                    url |-> url, content |-> content]>> \o ctx,
     sources |-> <<url>> \o srcs]

\* model.py:92-93: one "Source [i+1]: title / URL / Content" block is added to
\* the context string and the URL to the source list.
add_source(ctx, srcs, idx, item, url, content) ==
    [context |-> Append(ctx, [index |-> idx + 1, title |-> DictGet(item, "title"),
                              url |-> url, content |-> content]),
     sources |-> Append(srcs, url)]

\* model.py:100-109, the f-string
analysis_prompt(claim, ctx, srcs) ==
    [claim |-> claim, context |-> ctx, sources |-> Take(srcs, SourceCap)]

\* analyze without `if not GEMINI_API_KEY`.
analyze_no_key_check(claim, ctx, srcs, reply) ==
    IF reply.err
    THEN [exc |-> FALSE, val |-> MsgGeminiError, called |-> TRUE]
    ELSE [exc |-> FALSE, val |-> reply.text, called |-> TRUE]

\* model.py:95-113
analyze(claim, ctx, srcs, reply) ==
    IF ~GEMINI_API_KEY
    THEN [exc |-> FALSE, val |-> MsgNoGemini, called |-> FALSE]
    ELSE IF reply.err
    THEN [exc |-> FALSE, val |-> MsgGeminiError, called |-> TRUE]
    ELSE [exc |-> FALSE, val |-> reply.text, called |-> TRUE]

-----------------------------------------------------------------------------
(* The invocation.                                                         *)

Init ==
    /\ GOOGLE_API_KEY \in BOOLEAN
    /\ SEARCH_ENGINE_ID \in BOOLEAN
    /\ GEMINI_API_KEY \in BOOLEAN
    /\ user_input \in UserInputs
    /\ image_bytes \in ImageInputs
    /\ pc = "handler"
    /\ text = PyNone
    /\ intent = NoneAtom
    /\ search_results = <<>>
    /\ i = 0
    /\ context = <<>>
    /\ sources = <<>>
    /\ result = NoneAtom
    /\ raised = FALSE
    /\ ocr_calls = <<>>
    /\ search_calls = <<>>
    /\ scrape_calls = <<>>
    /\ intent_calls = <<>>
    /\ analysis_calls = <<>>

config == <<GOOGLE_API_KEY, SEARCH_ENGINE_ID, GEMINI_API_KEY, user_input, image_bytes>>

\* The function returns v.
Return(v) == pc' = "done" /\ result' = v /\ raised' = FALSE

\* An exception leaves the handler, which has no try block of its own.
Propagate == pc' = "done" /\ result' = NoneAtom /\ raised' = TRUE

\* Execution goes on at `label`.
Goto(label) == pc' = label /\ UNCHANGED <<result, raised>>

\* model.py:117-120 and 124-125: an image was given.
HandlerImage(ocr) ==
    /\ pc = "handler"
    /\ TruthyAtom(image_bytes)
    /\ LET r == get_text_from_image(image_bytes, ocr) IN
        /\ ocr_calls' = Append(ocr_calls, ocr)
        /\ IF r.exc
           THEN Propagate /\ UNCHANGED text
           ELSE /\ text' = r.val
                /\ LET c == check_image_text(r.val) IN
                    IF c.returns THEN Return(c.val) ELSE Goto("recognize_intent")
    /\ UNCHANGED <<config, intent, search_results, i, context, sources,
                   search_calls, scrape_calls, intent_calls, analysis_calls>>

\* model.py:121-125: no image.
HandlerText ==
    /\ pc = "handler"
    /\ ~TruthyAtom(image_bytes)
    /\ text' = user_input
    /\ LET c == check_text(user_input) IN
        IF c.returns THEN Return(c.val) ELSE Goto("recognize_intent")
    /\ UNCHANGED <<config, intent, search_results, i, context, sources,
                   ocr_calls, search_calls, scrape_calls, intent_calls, analysis_calls>>

\* model.py:127
RecognizeIntent(reply) ==
    /\ pc = "recognize_intent"
    /\ LET r == recognize_intent(text, reply) IN
        /\ intent_calls' = IF r.called
                           THEN Append(intent_calls, [input |-> text, reply |-> reply])
                           ELSE intent_calls
        /\ IF r.exc
           THEN Propagate /\ UNCHANGED intent
           ELSE intent' = r.val /\ Goto("dispatch")
    /\ UNCHANGED <<config, text, search_results, i, context, sources,
                   ocr_calls, search_calls, scrape_calls, analysis_calls>>

\* model.py:128-133
Dispatch ==
    /\ pc = "dispatch"
    /\ LET d == handler_dispatch(intent) IN
        IF d.returns THEN Return(d.val) ELSE Goto("verify_misinformation")
    /\ UNCHANGED <<config, text, intent, search_results, i, context, sources,
                   ocr_calls, search_calls, scrape_calls, intent_calls, analysis_calls>>

\* model.py:83-87
Search(outcome) ==
    /\ pc = "verify_misinformation"
    /\ LET r == search_the_web_google(text, outcome) IN
        /\ search_calls' = IF r.called
                           THEN Append(search_calls, [q |-> text, num |-> NumRequested])
                           ELSE search_calls
        /\ IF r.exc
           THEN Propagate /\ UNCHANGED search_results
           ELSE /\ search_results' = r.val
                /\ LET c == check_search_results(r.val) IN
                    IF c.returns THEN Return(c.val) ELSE Goto("loop")
    /\ i' = 0
    /\ context' = <<>>
    /\ sources' = <<>>
    /\ UNCHANGED <<config, text, intent, ocr_calls, scrape_calls, intent_calls,
                   analysis_calls>>

\* model.py:88-93, one iteration for a result whose link is usable.
LoopFetch ==
    /\ pc = "loop"
    /\ i < Len(search_results)
    /\ LET item == search_results[i + 1]
           url == DictGet(item, "link") IN
        /\ TruthyAtom(url)
        /\ \E fetch \in FetchOutcomes(url) :
            LET s == scrape_url_content(url, fetch) IN
                /\ scrape_calls' = Append(scrape_calls, [url |-> url, err |-> fetch.err])
                /\ IF s.exc
                   THEN Propagate /\ UNCHANGED <<i, context, sources>>
                   ELSE LET a == add_source(context, sources, i, item, url, s.val) IN
                        /\ context' = a.context
                        /\ sources' = a.sources
                        /\ i' = i + 1
                        /\ Goto("loop")
    /\ UNCHANGED <<config, text, intent, search_results, ocr_calls, search_calls,
                   intent_calls, analysis_calls>>

\* model.py:88-90, one iteration for a result without a usable link.
LoopSkip ==
    /\ pc = "loop"
    /\ i < Len(search_results)
    /\ ~TruthyAtom(DictGet(search_results[i + 1], "link"))
    /\ i' = i + 1
    /\ Goto("loop")
    /\ UNCHANGED <<config, text, intent, search_results, context, sources, ocr_calls,
                   search_calls, scrape_calls, intent_calls, analysis_calls>>

\* model.py:88, the loop is exhausted.
LoopEnd ==
    /\ pc = "loop"
    /\ i >= Len(search_results)
    /\ Goto("analyze")
    /\ UNCHANGED <<config, text, intent, search_results, i, context, sources, ocr_calls,
                   search_calls, scrape_calls, intent_calls, analysis_calls>>

\* model.py:95-113
Analyze(reply) ==
    /\ pc = "analyze"
    /\ LET r == analyze(text, context, sources, reply) IN
        /\ analysis_calls' = IF r.called
                             THEN Append(analysis_calls,
                                         analysis_prompt(text, context, sources))
                             ELSE analysis_calls
        /\ IF r.exc THEN Propagate ELSE Return(r.val)
    /\ UNCHANGED <<config, text, intent, search_results, i, context, sources, ocr_calls,
                   search_calls, scrape_calls, intent_calls>>

Next ==
    \/ \E ocr \in OcrOutcomes : HandlerImage(ocr)
    \/ HandlerText
    \/ \E reply \in IntentReplies : RecognizeIntent(reply)
    \/ Dispatch
    \/ \E outcome \in SearchOutcomes : Search(outcome)
    \/ LoopFetch
    \/ LoopSkip
    \/ LoopEnd
    \/ \E reply \in AnalysisReplies : Analyze(reply)

Spec == Init /\ [][Next]_vars

\* Every call the invocation makes returns or raises (the fetch has a timeout,
\* the clients of the other providers have their defaults), and the
\* interpreter then runs the next statement.
FairSpec == Spec /\ WF_vars(Next)

-----------------------------------------------------------------------------
(* Vocabulary of the properties.                                           *)

FixedResponses ==
    {MsgNoImageText, MsgNoInput, MsgGreeting, MsgOnlyClaims, MsgNoSearch, MsgNoGemini}

\* Every text an invocation may answer with.
ResponseTexts ==
    FixedResponses \cup {MsgGeminiError} \cup {r.text : r \in {x \in AnalysisReplies : ~x.err}}

Intents == {"greeting", "fact_checking_claim", "general_question"}

\* The invocation has left the statement at `label` behind.
Returned == pc = "done"

NoSearchCall == search_calls = <<>>
NoFetchCall == scrape_calls = <<>>
NoModelCall == intent_calls = <<>> /\ analysis_calls = <<>>

\* The result has a link the loop uses.
HasLink(item) == "link" \in DOMAIN item /\ item.link # ""

\* The usable links of a result list, in the list's order.
RECURSIVE LinksOf(_)
LinksOf(results) ==
    IF results = <<>> THEN <<>>
    ELSE IF HasLink(Head(results)) THEN <<Head(results).link>> \o LinksOf(Tail(results))
    ELSE LinksOf(Tail(results))

\* The positions (1-based) of the results with a usable link, in order.
RECURSIVE LinkedPositions(_, _)
LinkedPositions(results, from) ==
    IF from > Len(results) THEN <<>>
    ELSE IF HasLink(results[from]) THEN <<from>> \o LinkedPositions(results, from + 1)
    ELSE LinkedPositions(results, from + 1)

\* The body text of each page: its paragraphs' texts separated by one space.
\* "ab c" and "d".
BodyOf(url) == IF url = "u1" THEN <<97, 98, 32, 99>> ELSE <<100>>

\* The recognised text is blank: nothing is left of it after trimming.
Blank(raw) == \A k \in 1..Len(raw) : raw[k] \in Whitespace

-----------------------------------------------------------------------------
(* C1: every invocation ends, and it ends by returning one of the response *)
(* texts; no exception leaves freaksearch_handler, whatever the input and  *)
(* whatever OCR, search, fetch and the model do.                           *)
C1_AlwaysReturnsText ==
    /\ <>Returned
    /\ [](Returned => (~raised /\ result \in ResponseTexts))

\* Reached: an invocation in which OCR ran, a fetch raised and the analysis
\* call raised, and which still returned text.
C1_Witness ==
    /\ Returned
    /\ ~raised
    /\ result = MsgGeminiError
    /\ ocr_calls # <<>>
    /\ \E k \in 1..Len(scrape_calls) : scrape_calls[k].err

(* C2: when the text handed to classification is a greeting literal after  *)
(* strip() and lower(), the intent is greeting, the invocation answers the *)
(* fixed greeting, and no search, fetch or model call is made, with or     *)
(* without credentials.                                                    *)
C2_GreetingNoCalls ==
    (pc # "handler" /\ Truthy(text) /\ Lower(Strip(text)) \in greetings) =>
        /\ pc \in {"recognize_intent", "dispatch", "done"}
        /\ pc # "recognize_intent" => intent = "greeting"
        /\ Returned => (result = MsgGreeting /\ ~raised)
        /\ NoSearchCall /\ NoFetchCall /\ NoModelCall

C2_Witness ==
    /\ Returned
    /\ text = <<13, 86, 65, 78, 65, 8490, 75, 65, 77, 10>>
    /\ result = MsgGreeting
    /\ GOOGLE_API_KEY /\ SEARCH_ENGINE_ID /\ GEMINI_API_KEY

(* C3: whenever the evidence assembled for a claim has no entry, the       *)
(* invocation answers the fixed "could not fetch search results" message   *)
(* and the model is not called for synthesis.                              *)
C3_EmptyBundleNoSynthesis ==
    (Returned /\ ~raised /\ intent = "fact_checking_claim" /\ sources = <<>>) =>
        (result = MsgNoSearch /\ analysis_calls = <<>>)

(* C4: at every point of an invocation the number of sources fetched so    *)
(* far is at most the number of search results and at most the cap of 3,   *)
(* whatever list the provider answered with.                               *)
C4_FetchesCapped ==
    /\ Len(scrape_calls) <= Len(search_results)
    /\ Len(scrape_calls) <= SourceCap

(* C5: a fetch that fails contributes an empty body and its entry is kept; *)
(* every other URL is fetched and contributes its body; the loop is never  *)
(* left early, so the invocation reaches the analysis step.                *)
C5_FetchIsolation ==
    /\ Len(context) = Len(scrape_calls)
    /\ Len(context) = Len(LinksOf(SubSeq(search_results, 1, i)))
    /\ \A k \in 1..Len(context) :
        /\ context[k].url = scrape_calls[k].url
        /\ context[k].content = IF scrape_calls[k].err THEN <<>>
                                ELSE BodyOf(scrape_calls[k].url)
    /\ (search_results # <<>> /\ pc \in {"analyze", "done"}) =>
        (i = Len(search_results) /\ ~raised)

\* Reached: three results, the second fetch raised, the other two bodies are
\* in the bundle, and the invocation is at the analysis step.
C5_Witness ==
    /\ pc = "analyze"
    /\ Len(search_results) = 3
    /\ Len(scrape_calls) = 3
    /\ ~scrape_calls[1].err /\ scrape_calls[2].err /\ ~scrape_calls[3].err
    /\ context[1].content # <<>> /\ context[2].content = <<>> /\ context[3].content # <<>>

(* C6: search, fetch and the analysis call happen only after the intent    *)
(* was classified fact_checking_claim; a general_question ends with the    *)
(* fixed "only verifies claims" response and no search or fetch call.      *)
C6_OnlyClaimsAreVerified ==
    /\ (~NoSearchCall \/ ~NoFetchCall \/ analysis_calls # <<>>
          \/ pc \in {"verify_misinformation", "loop", "analyze"}) =>
        intent = "fact_checking_claim"
    /\ intent = "general_question" =>
        /\ pc \in {"dispatch", "done"}
        /\ NoSearchCall /\ NoFetchCall /\ analysis_calls = <<>>
        /\ Returned => (result = MsgOnlyClaims /\ ~raised)

C6_Witness ==
    /\ Returned
    /\ intent = "general_question"
    /\ result = MsgOnlyClaims
    /\ GOOGLE_API_KEY /\ SEARCH_ENGINE_ID
    /\ Len(intent_calls) = 1

(* C7: with an image whose OCR raises or recognises only blank text the    *)
(* invocation answers "no text read from image" whatever the user text;    *)
(* without an image and with empty user text it answers "no input          *)
(* provided"; in both cases nothing is classified, searched, fetched or    *)
(* asked of the model.                                                     *)
C7_InputInvalid ==
    /\ (ocr_calls # <<>> /\ (ocr_calls[1].err \/ Blank(ocr_calls[1].raw))) =>
        /\ Returned /\ ~raised
        /\ result = MsgNoImageText
        /\ intent = NoneAtom
        /\ NoSearchCall /\ NoFetchCall /\ NoModelCall
    /\ (pc # "handler" /\ ~TruthyAtom(image_bytes) /\ user_input \in {PyNone, <<>>}) =>
        /\ Returned /\ ~raised
        /\ result = MsgNoInput
        /\ intent = NoneAtom
        /\ ocr_calls = <<>>
        /\ NoSearchCall /\ NoFetchCall /\ NoModelCall
    /\ (pc # "handler" /\ TruthyAtom(image_bytes)) => Len(ocr_calls) = 1

\* Reached: an image with blank recognised text next to a user text that is a
\* claim.
C7_Witness ==
    /\ Returned
    /\ user_input = <<109, 111, 111, 110>>
    /\ ocr_calls = <<[err |-> FALSE, raw |-> <<32, 10, 12>>]>>
    /\ result = MsgNoImageText

(* C8: when search returned at least one result and no model credential is *)
(* configured, the invocation answers the fixed "evidence gathered,        *)
(* analysis unavailable" diagnostic and the model is never called, neither *)
(* for classification nor for synthesis.                                   *)
C8_NoModelCredential ==
    (search_results # <<>> /\ ~GEMINI_API_KEY) =>
        /\ NoModelCall
        /\ Returned => (result = MsgNoGemini /\ ~raised)

C8_Witness ==
    /\ Returned
    /\ ~GEMINI_API_KEY
    /\ result = MsgNoGemini
    /\ Len(context) >= 2

(* C9: for a text that is no greeting, classification never raises and     *)
(* answers fact_checking_claim when no model credential is configured or   *)
(* the model call raises; when the call succeeds it answers                *)
(* fact_checking_claim exactly when the reply, stripped, lowercased and    *)
(* without quotation marks, contains that label, and general_question      *)
(* otherwise.                                                              *)
C9_Classification ==
    (pc \notin {"handler", "recognize_intent"} /\ Truthy(text)
       /\ Lower(Strip(text)) \notin greetings) =>
        /\ intent \in Intents \ {"greeting"}
        /\ ~GEMINI_API_KEY => (intent = "fact_checking_claim" /\ intent_calls = <<>>)
        /\ GEMINI_API_KEY =>
            /\ Len(intent_calls) = 1
            /\ intent_calls[1].input = text
            /\ LET reply == intent_calls[1].reply IN
                /\ reply.err => intent = "fact_checking_claim"
                /\ ~reply.err =>
                    (intent = "fact_checking_claim" <=>
                        Contains(RemoveChar(Lower(Strip(reply.text)), 34), FactLabel))
        /\ pc = "dispatch" => ~raised

\* Reached: the model's reply names the label with quotation marks inside it.
C9_Witness ==
    /\ pc = "dispatch"
    /\ intent = "fact_checking_claim"
    /\ Len(intent_calls) = 1
    /\ ~intent_calls[1].reply.err
    /\ Contains(intent_calls[1].reply.text, <<95, 34, 67>>)   \* _"C

(* C10: URLs are fetched one at a time in the provider's order; a result   *)
(* without a usable link is neither fetched nor kept and does not end the  *)
(* loop; the kept entries and the source list reach the prompt in the      *)
(* provider's relative order.                                              *)
C10_ProviderOrder ==
    /\ [k \in 1..Len(scrape_calls) |-> scrape_calls[k].url]
         = LinksOf(SubSeq(search_results, 1, i))
    /\ sources = LinksOf(SubSeq(search_results, 1, i))
    /\ [k \in 1..Len(context) |-> context[k].index]
         = SubSeq(LinkedPositions(search_results, 1), 1, Len(context))
    /\ \A k \in 1..Len(context) :
        /\ context[k].url = search_results[context[k].index].link
        /\ context[k].title = search_results[context[k].index].title
    /\ (search_results # <<>> /\ pc \in {"analyze", "done"}) => i = Len(search_results)
    /\ \A n \in 1..Len(analysis_calls) :
        /\ analysis_calls[n].context = context
        /\ analysis_calls[n].sources
             = SubSeq(LinksOf(search_results), 1,
                      Min(SourceCap, Len(LinksOf(search_results))))

\* Reached: a prompt built from three results of which the middle one has no
\* link.
C10_Witness ==
    /\ Len(analysis_calls) = 1
    /\ Len(search_results) = 3
    /\ ~HasLink(search_results[2])
    /\ analysis_calls[1].sources = <<"u2", "u1">>
    /\ analysis_calls[1].context[1].index = 1
    /\ analysis_calls[1].context[2].index = 3

====
